---------------------------- MODULE Spec2Model ----------------------------
(***************************************************************************)
(* Verification model of the block-ingestion core:                         *)
(*   - the error taxonomy of crates/interfaces/src/blockchain_tree/error.rs*)
(*   - the read-side block accessors of                                    *)
(*     crates/rpc/rpc-eth-api/src/helpers/block.rs                         *)
(*   - the blockchain tree (insert_block / make_canonical), whose code is  *)
(*     not among the source files and is modelled from the specification.  *)
(***************************************************************************)
EXTENDS Integers, Sequences, FiniteSets, TLC

VARIABLES
    kind,       \* error taxonomy: the InsertBlockErrorKind under examination
    canon_err,  \* error taxonomy: the CanonicalError under examination
    ret,        \* error taxonomy: [fn, val] the last predicate called and its result
    opt,        \* error taxonomy: the Option returned by the last as_* accessor
    made,       \* InsertBlockError: the constructor call and its arguments
    error,      \* InsertBlockError: the error value that exists now
    got,        \* InsertBlockError: what the last accessor returned
    key,        \* BlockNumberAddress: the key at hand
    encoded,    \* BlockNumberAddress: the byte string at hand
    orig,       \* BlockNumberAddress (history): the input the run started from
    range_in,   \* BlockNumberAddress: the inclusive block-number range given to range
    probe,      \* BlockNumberAddress: the key looked up in the range
    range_out,  \* BlockNumberAddress: what range returned
    header,     \* EVM environment: the header
    cfg,        \* EVM environment: cfg.handler_cfg.spec_id
    block_env,  \* EVM environment: the BlockEnv being filled
    filled,     \* EVM environment (history): the last fill call and its arguments
    call,       \* block accessors: [fn, id] the accessor running and its block id
    pc,         \* block accessors: the position of the call (an await point, or "done")
    attempt,    \* block accessors: the index of the retry loop of block_with_senders
    resolved,   \* block accessors: the block hash the id resolved to (0: not resolved)
    hist,       \* block accessors: the collaborator calls made so far, with their answers
    result,     \* block accessors: what the call returned
    cache,      \* block accessors: the block hashes visible in the EthStateCache
    canonical,  \* tree: the canonical chain, a sequence of block hashes from genesis
    chains,     \* tree: the side-chain store, chain identifier -> [fork, blocks]
    buffer,     \* tree: the block buffer, in arrival order
    finalized,  \* tree: the last finalized block number
    next_id,    \* tree: the next chain identifier to assign
    halted,     \* tree: a fatal canonicalization error has been returned
    attached,   \* tree (history): the hashes ever attached to a chain
    last        \* tree (history): the last operation, its inputs and its outcome

err_vars == <<kind, canon_err, ret, opt>>

ibe_vars == <<made, error, got>>

key_vars == <<key, encoded, orig, range_in, probe, range_out>>

evm_vars == <<header, cfg, block_env, filled>>

rpc_vars == <<call, pc, attempt, resolved, hist, result, cache>>

tree_vars == <<canonical, chains, buffer, finalized, next_id, halted, attached, last>>

vars == <<kind, canon_err, ret, opt, made, error, got, key, encoded, orig, range_in, probe,
          range_out, header, cfg, block_env, filled, call, pc, attempt, resolved, hist, result, cache,
          canonical, chains, buffer, finalized, next_id, halted, attached, last>>

(***************************************************************************)
(* Bounds of the model.                                                    *)
(***************************************************************************)
\* Largest block number / numeric payload carried by an error value.
MaxNum == 2

Nums == 0..MaxNum

\* Number of distinct block hashes a block id may resolve to.
MaxHash == 2

Hashes == 1..MaxHash

\* Capacity of the block buffer.
BufferLimit == 2

\* Number of chain identifiers the model assigns before it stops creating chains.
MaxChainId == 3

(***************************************************************************)
(* Error values.  An error value is [path, n]: path is the sequence of     *)
(* enum variants from the outermost layer inwards (an opaque payload such  *)
(* as a message or a boxed error is the last element), n is the numeric    *)
(* payload of the innermost variant (0 when it has none).                  *)
(***************************************************************************)
Leaf(v, n) == [path |-> <<v>>, n |-> n]

Wrap(v, e) == [path |-> <<v>> \o e.path, n |-> e.n]

Head1(e) == e.path[1]

Inner(e) == [path |-> Tail(e.path), n |-> e.n]

\* BlockchainTreeError: every variant, each with its one numeric field.
BlockchainTreeErrors ==
    { Leaf(v, n) : v \in { "PendingBlockIsFinalized", "BlockSideChainIdConsistency",
                           "CanonicalChain", "BlockNumberNotFoundInChain",
                           "BlockHashNotFoundInChain", "BlockBufferingFailed" },
                   n \in Nums }
    \cup { Leaf("GenesisBlockHasNoParent", 0) }

\* BlockValidationError: the two variants the taxonomy names and one other.
BlockValidationErrors ==
    { Leaf(v, 0) : v \in { "StateRoot", "BlockPreMerge", "BlockGasUsed" } }

\* BlockExecutionError: the variants matched by is_invalid_block.
BlockExecutionErrors ==
    { Wrap("Validation", e) : e \in BlockValidationErrors }
    \cup { Leaf(v, 0) : v \in { "LatestBlock", "Pruning", "CanonicalRevert",
                                "CanonicalCommit", "AppendChainDoesntConnect",
                                "UnavailableForTest", "Other" } }

\* ProviderError: the two state-root variants and one other.
ProviderErrors ==
    { Leaf(v, 0) : v \in { "StateRootMismatch", "UnwindStateRootMismatch",
                           "HeaderNotFound" } }

\* ConsensusError: opaque to the taxonomy.
ConsensusErrors == { Leaf(v, 0) : v \in { "HeaderGasLimitExceeded", "BodyOmmersHashDiff" } }

\* Box<dyn Error>: opaque to the taxonomy.
BoxedErrors == { Leaf(v, 0) : v \in { "boxed-database", "boxed-other" } }

CanonicalErrors ==
    { Wrap("Validation", e) : e \in BlockValidationErrors }
    \cup { Wrap("BlockchainTree", e) : e \in BlockchainTreeErrors }
    \cup { Wrap("Provider", e) : e \in ProviderErrors }
    \cup { Wrap("CanonicalRevert", Leaf("msg", 0)), Wrap("CanonicalCommit", Leaf("msg", 0)) }
    \cup { Leaf("OptimisticTargetRevert", n) : n \in Nums }

InsertBlockErrorKinds ==
    { Leaf("SenderRecovery", 0) }
    \cup { Wrap("Consensus", e) : e \in ConsensusErrors }
    \cup { Wrap("Execution", e) : e \in BlockExecutionErrors }
    \cup { Wrap("Tree", e) : e \in BlockchainTreeErrors }
    \cup { Wrap("Provider", e) : e \in ProviderErrors }
    \cup { Wrap("Internal", e) : e \in BoxedErrors }
    \cup { Wrap("Canonical", e) : e \in CanonicalErrors }
    \cup { Wrap("BlockchainTree", e) : e \in BlockchainTreeErrors }

(***************************************************************************)
(* CanonicalError predicates.                                              *)
(***************************************************************************)
is_fatal_mut(e) == Head1(e) \in { "CanonicalCommit", "CanonicalRevert", "Provider" }

is_fatal(e) == Head1(e) \in { "CanonicalCommit", "CanonicalRevert" }

is_block_hash_not_found(e) ==
    /\ Head1(e) = "BlockchainTree"
    /\ Head1(Inner(e)) = "BlockHashNotFoundInChain"

(***************************************************************************)
(* InsertBlockErrorKind predicates.                                        *)
(***************************************************************************)
\* The Execution(err) arm of is_invalid_block.
invalid_execution(err) ==
    CASE Head1(err) = "Validation" -> TRUE
      [] Head1(err) \in { "LatestBlock", "Pruning", "CanonicalRevert", "CanonicalCommit",
                          "AppendChainDoesntConnect", "UnavailableForTest" } -> FALSE
      [] Head1(err) = "Other" -> FALSE

\* The Tree(err) arm of is_invalid_block.
invalid_tree(err) ==
    CASE Head1(err) = "PendingBlockIsFinalized" -> TRUE
      [] Head1(err) \in { "BlockSideChainIdConsistency", "CanonicalChain",
                          "BlockNumberNotFoundInChain", "BlockHashNotFoundInChain",
                          "BlockBufferingFailed", "GenesisBlockHasNoParent" } -> FALSE

\* The Canonical(err) arm of is_invalid_block.
invalid_canonical(err) ==
    CASE Head1(err) \in { "BlockchainTree", "CanonicalCommit", "CanonicalRevert",
                          "OptimisticTargetRevert" } -> FALSE
      [] Head1(err) = "Validation" -> TRUE
      [] Head1(err) = "Provider" -> FALSE

is_invalid_block_mut(k) ==
    CASE Head1(k) \in { "SenderRecovery", "Consensus" } -> TRUE
      [] Head1(k) = "Execution" -> invalid_execution(Inner(k))
      [] Head1(k) = "Tree" -> invalid_tree(Inner(k))
      [] Head1(k) \in { "Provider", "Internal" } -> FALSE
      [] Head1(k) = "Canonical" -> invalid_canonical(Inner(k))
      [] Head1(k) = "BlockchainTree" -> invalid_tree(Inner(k))

is_invalid_block(k) ==
    CASE Head1(k) \in { "SenderRecovery", "Consensus" } -> TRUE
      [] Head1(k) = "Execution" -> invalid_execution(Inner(k))
      [] Head1(k) = "Tree" -> invalid_tree(Inner(k))
      [] Head1(k) \in { "Provider", "Internal" } -> FALSE
      [] Head1(k) = "Canonical" -> invalid_canonical(Inner(k))
      [] Head1(k) = "BlockchainTree" -> FALSE

is_tree_error_mut(k) == Head1(k) \in { "Tree", "BlockchainTree" }

is_tree_error(k) == Head1(k) = "Tree"

is_consensus_error(k) == Head1(k) = "Consensus"

\* matches!(err, ProviderError::StateRootMismatch(_) | ProviderError::UnwindStateRootMismatch(_))
state_root_provider(err) == Head1(err) \in { "StateRootMismatch", "UnwindStateRootMismatch" }

\* matches!(err, .. ::Validation(BlockValidationError::StateRoot { .. }))
state_root_validation(err) ==
    /\ Head1(err) = "Validation"
    /\ Head1(Inner(err)) = "StateRoot"

is_state_root_error_mut(k) ==
    CASE Head1(k) = "Execution" -> state_root_validation(Inner(k))
      [] Head1(k) = "Canonical" -> state_root_validation(Inner(k))
      [] Head1(k) = "Provider" -> state_root_provider(Inner(k))
      [] OTHER -> FALSE

is_state_root_error(k) ==
    CASE Head1(k) = "Execution" -> state_root_validation(Inner(k))
      [] Head1(k) = "Canonical" ->
            \/ state_root_validation(Inner(k))
            \/ /\ Head1(Inner(k)) = "Provider"
               /\ state_root_provider(Inner(Inner(k)))
      [] Head1(k) = "Provider" -> state_root_provider(Inner(k))
      [] OTHER -> FALSE

is_block_pre_merge(k) ==
    /\ Head1(k) = "Execution"
    /\ Head1(Inner(k)) = "Validation"
    /\ Head1(Inner(Inner(k))) = "BlockPreMerge"

is_execution_error(k) == Head1(k) = "Execution"

is_internal(k) == Head1(k) = "Internal"

\* Option<E>: None, or Some(e) as one more layer around the error value e.
None == Leaf("None", 0)

Some(e) == Wrap("Some", e)

as_tree_error(k) == IF Head1(k) = "Tree" THEN Some(Inner(k)) ELSE None

as_consensus_error(k) == IF Head1(k) = "Consensus" THEN Some(Inner(k)) ELSE None

as_execution_error(k) == IF Head1(k) = "Execution" THEN Some(Inner(k)) ELSE None

\* The error taxonomy at rest, while another component is examined.
NoRet == [fn |-> "none", val |-> FALSE]

InitErrVars ==
    /\ kind = Leaf("SenderRecovery", 0)
    /\ canon_err = Leaf("OptimisticTargetRevert", 0)
    /\ ret = NoRet
    /\ opt = None

(***************************************************************************)
(* InsertBlockError: the offending block together with its classification, *)
(* its constructors and accessors, and the conversion from RethError.      *)
(***************************************************************************)
\* SealedBlock values: a block is identified by its hash.
SealedBlocks == Hashes

\* RethError: every variant.  Database, Network and Custom carry opaque payloads.
RethErrors ==
    { Wrap("Execution", e) : e \in BlockExecutionErrors }
    \cup { Wrap("Consensus", e) : e \in ConsensusErrors }
    \cup { Wrap("Database", Leaf(v, 0)) : v \in { "Open", "Decode" } }
    \cup { Wrap("Provider", e) : e \in ProviderErrors }
    \cup { Wrap("Network", Leaf("ChannelClosed", 0)) }
    \cup { Wrap("Custom", Leaf("msg", 0)) }
    \cup { Wrap("Canonical", e) : e \in CanonicalErrors }

\* impl From<RethError> for InsertBlockErrorKind.  The box of Internal holds the
\* error it was made from.
from_mut(err) ==
    CASE Head1(err) = "Execution" -> Wrap("Execution", Inner(err))
      [] Head1(err) = "Consensus" -> Wrap("Consensus", Inner(err))
      [] Head1(err) = "Database" -> Wrap("Internal", Inner(err))
      [] Head1(err) = "Provider" -> Wrap("Provider", Inner(err))
      [] Head1(err) = "Network" -> Wrap("Internal", Inner(err))
      [] Head1(err) = "Custom" -> Wrap("Internal", Inner(err))
      [] Head1(err) = "Canonical" -> Wrap("Canonical", Inner(err))

from(err) ==
    CASE Head1(err) = "Execution" -> Wrap("Execution", Inner(err))
      [] Head1(err) = "Consensus" -> Wrap("Consensus", Inner(err))
      [] Head1(err) = "Database" -> Wrap("Internal", Inner(err))
      [] Head1(err) = "Provider" -> Wrap("Internal", Inner(err))
      [] Head1(err) = "Network" -> Wrap("Internal", Inner(err))
      [] Head1(err) = "Custom" -> Wrap("Internal", Inner(err))
      [] Head1(err) = "Canonical" -> Wrap("Canonical", Inner(err))

\* InsertBlockErrorData { block, kind }, boxed.
new(b, k) == [block |-> b, kind |-> k]

tree_error_mut(e, b) == new(b, Wrap("BlockchainTree", e))

tree_error(e, b) == new(b, Wrap("Tree", e))

consensus_error(e, b) == new(b, Wrap("Consensus", e))

sender_recovery_error(b) == new(b, Leaf("SenderRecovery", 0))

execution_error(e, b) == new(b, Wrap("Execution", e))

from_reth_error(e, b) == new(b, from(e))

into_block(e) == e.block

\* InsertBlockError::kind
InsertBlockError_kind(e) == e.kind

block(e) == e.block

split(e) == <<e.block, e.kind>>

\* No InsertBlockError exists: none was made yet, or it was consumed.
NoInsertBlockError == [block |-> 0, kind |-> None]

NoMade == [ctor |-> "none", block |-> 0, arg |-> None]

NoGot == [fn |-> "none", block |-> 0, kind |-> None]

InitIbeVars ==
    /\ made = NoMade
    /\ error = NoInsertBlockError
    /\ got = NoGot

\* The constructor calls: the constructor, the block and the error given to it.
ConstructorCalls ==
    { [ctor |-> "new", block |-> b, arg |-> k] :
         b \in SealedBlocks, k \in InsertBlockErrorKinds }
    \cup { [ctor |-> "tree_error", block |-> b, arg |-> e] :
              b \in SealedBlocks, e \in BlockchainTreeErrors }
    \cup { [ctor |-> "consensus_error", block |-> b, arg |-> e] :
              b \in SealedBlocks, e \in ConsensusErrors }
    \cup { [ctor |-> "sender_recovery_error", block |-> b, arg |-> None] :
              b \in SealedBlocks }
    \cup { [ctor |-> "execution_error", block |-> b, arg |-> e] :
              b \in SealedBlocks, e \in BlockExecutionErrors }
    \cup { [ctor |-> "from_reth_error", block |-> b, arg |-> e] :
              b \in SealedBlocks, e \in RethErrors }

\* A constructor call: the value it returns is the one at hand.
Made(ctor, e) ==
    /\ made.ctor = ctor
    /\ error = NoInsertBlockError
    /\ got = NoGot
    /\ error' = e
    /\ UNCHANGED <<made, got, err_vars, rpc_vars, tree_vars, key_vars, evm_vars>>

Make_new == Made("new", new(made.block, made.arg))

Make_tree_error == Made("tree_error", tree_error(made.arg, made.block))

Make_consensus_error == Made("consensus_error", consensus_error(made.arg, made.block))

Make_sender_recovery_error ==
    Made("sender_recovery_error", sender_recovery_error(made.block))

Make_execution_error == Made("execution_error", execution_error(made.arg, made.block))

Make_from_reth_error == Made("from_reth_error", from_reth_error(made.arg, made.block))

\* kind(&self) and block(&self) borrow the value.
Get_kind ==
    /\ error # NoInsertBlockError
    /\ got' = [fn |-> "kind", block |-> 0, kind |-> InsertBlockError_kind(error)]
    /\ UNCHANGED <<made, error, err_vars, rpc_vars, tree_vars, key_vars, evm_vars>>

Get_block ==
    /\ error # NoInsertBlockError
    /\ got' = [fn |-> "block", block |-> block(error), kind |-> None]
    /\ UNCHANGED <<made, error, err_vars, rpc_vars, tree_vars, key_vars, evm_vars>>

\* into_block(self) and split(self) consume the value.
Take_into_block ==
    /\ error # NoInsertBlockError
    /\ got' = [fn |-> "into_block", block |-> into_block(error), kind |-> None]
    /\ error' = NoInsertBlockError
    /\ UNCHANGED <<made, err_vars, rpc_vars, tree_vars, key_vars, evm_vars>>

Take_split ==
    /\ error # NoInsertBlockError
    /\ got' = [fn |-> "split", block |-> split(error)[1], kind |-> split(error)[2]]
    /\ error' = NoInsertBlockError
    /\ UNCHANGED <<made, err_vars, rpc_vars, tree_vars, key_vars, evm_vars>>

(***************************************************************************)
(* BlockNumberAddress (tables/models/accounts.rs): the key (block number,  *)
(* address), its 28-byte encoding and its ranges.  A u64 is kept at its    *)
(* full width as four 16-bit limbs, most significant first; an address is  *)
(* a sequence of 20 bytes.                                                 *)
(***************************************************************************)
ByteBase == 2 ^ 8

LimbBase == 2 ^ 16

\* Largest of the small block numbers the ranges are drawn from.
MaxSmall == 2

\* u64::MAX
MaxU64 == [i \in 1..4 |-> LimbBase - 1]

\* The u64 with value n < 2^16.
Small(n) == [i \in 1..4 |-> IF i = 4 THEN n ELSE 0]

\* n + 1 modulo 2^64.
wrapping_inc(n) ==
    [i \in 1..4 |-> IF \A j \in (i + 1)..4 : n[j] = LimbBase - 1
                    THEN (n[i] + 1) % LimbBase
                    ELSE n[i]]

\* Address::ZERO
ZERO == [i \in 1..20 |-> 0]

Addresses ==
    { ZERO,
      [i \in 1..20 |-> ByteBase - 1],
      [i \in 1..20 |-> i],
      [i \in 1..20 |-> IF i = 1 THEN 186 ELSE IF i = 2 THEN 94 ELSE 0] }

\* Block numbers given to encode: every mix of a zero, a two-byte and a full limb.
EncodedNums == [1..4 -> { 0, 258, LimbBase - 1 }]

\* Block numbers given to range and looked up in it.
RangeNums ==
    { Small(n) : n \in 0..MaxSmall }
    \cup { Small(LimbBase - 1), wrapping_inc(Small(LimbBase - 1)),
           [i \in 1..4 |-> IF i = 4 THEN LimbBase - 2 ELSE LimbBase - 1], MaxU64 }

\* Byte strings given to decode: 28 bytes, and some of another length.
ByteStrings ==
    { p \o a : p \in { [i \in 1..8 |-> 0], [i \in 1..8 |-> ByteBase - 1],
                       [i \in 1..8 |-> i], [i \in 1..8 |-> IF i = 7 THEN 1 ELSE 0],
                       [i \in 1..8 |-> IF i = 1 THEN 128 ELSE IF i = 8 THEN 1 ELSE 0] },
               a \in Addresses }
    \cup { [i \in 1..7 |-> i], [i \in 1..8 |-> i], [i \in 1..27 |-> i], [i \in 1..29 |-> i] }

\* u64::to_be_bytes
to_be_bytes_mut(n) ==
    [i \in 1..8 |-> IF i % 2 = 1 THEN n[5 - (i + 1) \div 2] % ByteBase
                    ELSE n[5 - i \div 2] \div ByteBase]

to_be_bytes(n) ==
    [i \in 1..8 |-> IF i % 2 = 1 THEN n[(i + 1) \div 2] \div ByteBase
                    ELSE n[i \div 2] % ByteBase]

\* u64::from_be_bytes
from_be_bytes(b) == [j \in 1..4 |-> b[2 * j - 1] * ByteBase + b[2 * j]]

\* A key at hand, and how it came about.
KeyOf(via, num, addr) == [tag |-> "key", via |-> via, num |-> num, addr |-> addr]

NoKey == [tag |-> "none", via |-> "none", num |-> <<>>, addr |-> <<>>]

PanicKey == [tag |-> "panic", via |-> "decode", num |-> <<>>, addr |-> <<>>]

BufOf(via, bytes) == [via |-> via, bytes |-> bytes]

NoBuf == [via |-> "none", bytes |-> <<>>]

\* impl Encode for BlockNumberAddress
encode(k) == to_be_bytes(k.num) \o k.addr

\* impl Decode for BlockNumberAddress: value[..8] panics on fewer than 8 bytes,
\* Address::from_slice panics unless the rest is 20 bytes.
decode(value) ==
    IF Len(value) < 8 THEN PanicKey
    ELSE IF Len(value) - 8 # 20 THEN PanicKey
    ELSE KeyOf("decode", from_be_bytes(SubSeq(value, 1, 8)), SubSeq(value, 9, Len(value)))

\* Lexicographic order of two sequences of the same length.
SeqLess(a, b) ==
    \E i \in 1..Len(a) : a[i] < b[i] /\ \A j \in 1..(i - 1) : a[j] = b[j]

\* derive(Ord, PartialOrd) on BlockNumberAddress((BlockNumber, Address))
KeyLess(x, y) == SeqLess(x.num \o x.addr, y.num \o y.addr)

NoRange == [tag |-> "none", start |-> NoKey, end |-> NoKey, hit |-> "-"]

\* BlockNumberAddress::range: `*range.end() + 1` overflows for u64::MAX, which
\* panics in a build with overflow checks and wraps to 0 in a build without.
range(r) ==
    LET made_range == [tag |-> "range", start |-> KeyOf("range", r.start, ZERO),
                       end |-> KeyOf("range", wrapping_inc(r.end), ZERO), hit |-> "-"]
        panicked == [tag |-> "panic", start |-> NoKey, end |-> NoKey, hit |-> "-"]
    IN  IF r.end = MaxU64 THEN { panicked, made_range } ELSE { made_range }

\* Range<BlockNumberAddress>::contains: start <= k < end.
contains(rg, k) == ~KeyLess(k, rg.start) /\ KeyLess(k, rg.end)

InitKeyVars ==
    /\ key = NoKey
    /\ encoded = NoBuf
    /\ orig = [key |-> NoKey, encoded |-> NoBuf]
    /\ range_in = [start |-> Small(0), end |-> Small(0)]
    /\ probe = NoKey
    /\ range_out = NoRange

Encode ==
    /\ key.tag = "key"
    /\ encoded' = BufOf("encode", encode(key))
    /\ key' = NoKey
    /\ UNCHANGED <<orig, range_in, probe, range_out,
                   err_vars, rpc_vars, tree_vars, ibe_vars, evm_vars>>

Decode ==
    /\ encoded.via # "none"
    /\ key' = decode(encoded.bytes)
    /\ encoded' = NoBuf
    /\ UNCHANGED <<orig, range_in, probe, range_out,
                   err_vars, rpc_vars, tree_vars, ibe_vars, evm_vars>>

MakeRange ==
    /\ probe.tag = "key"
    /\ range_out.tag = "none"
    /\ range_out' \in range(range_in)
    /\ UNCHANGED <<key, encoded, orig, range_in, probe,
                   err_vars, rpc_vars, tree_vars, ibe_vars, evm_vars>>

Contains ==
    /\ range_out.tag = "range"
    /\ range_out.hit = "-"
    /\ range_out' = [range_out EXCEPT !.hit = IF contains(range_out, probe)
                                              THEN "in" ELSE "out"]
    /\ UNCHANGED <<key, encoded, orig, range_in, probe,
                   err_vars, rpc_vars, tree_vars, ibe_vars, evm_vars>>

(***************************************************************************)
(* EVM environment (evm/src/lib.rs): filling the BlockEnv from a header.   *)
(***************************************************************************)
\* Largest value of a numeric header field.
MaxField == 1

Fields == 0..MaxField

\* Option<T>
NoneOf == [some |-> FALSE, v |-> 0]

SomeOf(v) == [some |-> TRUE, v |-> v]

unwrap_or_default(o) == IF o.some THEN o.v ELSE 0

Headers ==
    [number : Fields, beneficiary : Fields, timestamp : Fields, mix_hash : Fields,
     difficulty : Fields, gas_limit : Fields,
     base_fee_per_gas : { NoneOf, SomeOf(1) },
     excess_blob_gas : { NoneOf, SomeOf(1) }]

\* SpecId, in the order of the enum (a hard fork is >= the ones before it).
SpecIds == << "FRONTIER", "LONDON", "MERGE", "SHANGHAI", "CANCUN" >>

SpecIdRank(id) == CHOOSE i \in DOMAIN SpecIds : SpecIds[i] = id

\* cfg.handler_cfg.spec_id >= SpecId::MERGE
after_merge_of(id) == SpecIdRank(id) >= SpecIdRank("MERGE")

\* BlockEnv values the caller may pass in: a fresh one, and one left by a former fill.
BlockEnvs ==
    { [number |-> 0, coinbase |-> 0, timestamp |-> 0, prevrandao |-> NoneOf,
       difficulty |-> 0, basefee |-> 0, gas_limit |-> 0, blob_excess_gas |-> NoneOf],
      [number |-> MaxField + 1, coinbase |-> MaxField + 1, timestamp |-> MaxField + 1,
       prevrandao |-> SomeOf(MaxField + 1), difficulty |-> MaxField + 1,
       basefee |-> MaxField + 1, gas_limit |-> MaxField + 1,
       blob_excess_gas |-> SomeOf(MaxField + 1)] }

\* ConfigureEvmEnv::fill_block_env.  U256::from widens a u64 without changing it.
fill_block_env_mut(env, h, after_merge) ==
    [number |-> h.number,
     coinbase |-> h.beneficiary,
     timestamp |-> h.timestamp,
     prevrandao |-> IF after_merge THEN SomeOf(h.mix_hash) ELSE env.prevrandao,
     difficulty |-> IF after_merge THEN 0 ELSE h.difficulty,
     basefee |-> unwrap_or_default(h.base_fee_per_gas),
     gas_limit |-> h.gas_limit,
     blob_excess_gas |-> IF h.excess_blob_gas.some THEN SomeOf(h.excess_blob_gas.v)
                         ELSE env.blob_excess_gas]

fill_block_env(env, h, after_merge) ==
    [number |-> h.number,
     coinbase |-> h.beneficiary,
     timestamp |-> h.timestamp,
     prevrandao |-> IF after_merge THEN SomeOf(h.mix_hash) ELSE NoneOf,
     difficulty |-> IF after_merge THEN 0 ELSE h.difficulty,
     basefee |-> unwrap_or_default(h.base_fee_per_gas),
     gas_limit |-> h.gas_limit,
     blob_excess_gas |-> IF h.excess_blob_gas.some THEN SomeOf(h.excess_blob_gas.v)
                         ELSE env.blob_excess_gas]

NoFill == [fn |-> "none", after_merge |-> FALSE, before |-> "FRONTIER"]

InitEvmVars ==
    /\ header = [number |-> 0, beneficiary |-> 0, timestamp |-> 0, mix_hash |-> 0,
                 difficulty |-> 0, gas_limit |-> 0, base_fee_per_gas |-> NoneOf,
                 excess_blob_gas |-> NoneOf]
    /\ cfg = "FRONTIER"
    /\ block_env = CHOOSE e \in BlockEnvs : e.number = 0
    /\ filled = NoFill

\* A direct call of fill_block_env, with either value of after_merge.
FillBlockEnv ==
    /\ \E after_merge \in BOOLEAN :
          /\ block_env' = fill_block_env(block_env, header, after_merge)
          /\ filled' = [fn |-> "fill_block_env", after_merge |-> after_merge,
                        before |-> cfg]
    /\ UNCHANGED <<header, cfg, err_vars, rpc_vars, tree_vars, ibe_vars, key_vars>>

\* fill_cfg_and_block_env: fill_cfg_env (left to the implementor) chooses the spec
\* id, then after_merge is read from the filled cfg and fill_block_env is called.
FillCfgAndBlockEnv ==
    /\ \E chosen \in { SpecIds[i] : i \in DOMAIN SpecIds } :
          /\ cfg' = chosen
          /\ block_env' = fill_block_env(block_env, header, after_merge_of(chosen))
          /\ filled' = [fn |-> "fill_cfg_and_block_env",
                        after_merge |-> after_merge_of(chosen), before |-> cfg]
    /\ UNCHANGED <<header, err_vars, rpc_vars, tree_vars, ibe_vars, key_vars>>

(***************************************************************************)
(* The blockchain tree: side-chain store, block buffer, insertion engine   *)
(* and canonicalization engine.  Blocks are drawn from a fixed universe;   *)
(* a block is its hash, and the table gives its parent hash and number.    *)
(***************************************************************************)
BlockTable == <<
    [parent |-> 0, number |-> 0],     \* 1: T, the canonical tip at the start (genesis)
    [parent |-> 1, number |-> 1],     \* 2: A (= B1), a child of T
    [parent |-> 1, number |-> 1],     \* 3: A', another child of T
    [parent |-> 2, number |-> 2],     \* 4: B2, a child of B1
    [parent |-> 4, number |-> 3],     \* 5: B3, a child of B2
    [parent |-> 2, number |-> 2],     \* 6: another child of B1
    [parent |-> 9, number |-> 1] >>   \* 7: a block whose parent never arrives

Parent(b) == BlockTable[b].parent

Number(b) == BlockTable[b].number

\* The blocks that arrive from the network (every block but genesis).
Arriving == (DOMAIN BlockTable) \ {1}

Range(s) == { s[i] : i \in DOMAIN s }

IndexOf(s, x) == CHOOSE i \in DOMAIN s : s[i] = x

\* The blocks held by the side-chain store.
StoreBlocks(ch) == UNION { Range(ch[c].blocks) : c \in DOMAIN ch }

\* The identifier of the side chain that holds block b.
ChainOf(ch, b) == CHOOSE c \in DOMAIN ch : b \in Range(ch[c].blocks)

NoErr == Leaf("ok", 0)

\* What the consensus, sender-recovery and execution collaborators answer for a
\* block: no error, or the error of the first step that fails.
Verdicts ==
    { NoErr,
      Wrap("Consensus", Leaf("HeaderGasLimitExceeded", 0)),
      Leaf("SenderRecovery", 0),
      Wrap("Execution", Wrap("Validation", Leaf("StateRoot", 0))) }

NoLast == [op |-> "none", arg |-> 0, verdict |-> NoErr, out |-> "none", err |-> NoErr,
           reverted |-> <<>>, committed |-> <<>>, storage |-> <<0, 0>>]

\* The tree before any operation: T canonical and finalized, nothing else known.
InitTreeVars ==
    /\ canonical = <<1>>
    /\ chains = <<>>
    /\ buffer = <<>>
    /\ finalized = 0
    /\ next_id = 0
    /\ halted = FALSE
    /\ attached = {1}
    /\ last = NoLast

\* The part of the tree an operation rewrites.
Tree == [canonical |-> canonical, chains |-> chains, buffer |-> buffer,
         next_id |-> next_id, attached |-> attached]

\* Step 1: the parent is in the canonical chain or in a side chain.
ParentKnown_mut(t, b) ==
    \/ Parent(b) \in Range(t.canonical)
    \/ Parent(b) \in StoreBlocks(t.chains)
    \/ Parent(b) \in Range(t.buffer)

ParentKnown(t, b) ==
    \/ Parent(b) \in Range(t.canonical)
    \/ Parent(b) \in StoreBlocks(t.chains)

\* Blocks are unique by hash.
Known(t, b) == b \in Range(t.canonical) \/ b \in StoreBlocks(t.chains)

\* Step 2: place the block in the buffer; beyond the capacity the oldest is evicted.
BufferBlock(t, b) ==
    IF b \in Range(t.buffer) THEN t
    ELSE LET nb == Append(t.buffer, b)
         IN  [t EXCEPT !.buffer = IF Len(nb) > BufferLimit THEN Tail(nb) ELSE nb]

\* Step 3: the block would extend history below the finality boundary, which is
\* when its own number is at or below the finalized number (spec 4.1: "pending
\* block height at or below the finalized number"; spec 8, Boundary).
BelowFinalized(fin, b) == Number(b) <= fin

\* Steps 3 to 6: the error the block is rejected with, or NoErr.
InsertCheck(fin, b, verdict) ==
    IF BelowFinalized(fin, b)
    THEN Wrap("Tree", Leaf("PendingBlockIsFinalized", fin))
    ELSE verdict

WithChain(ch, id, c) == [i \in (DOMAIN ch) \cup {id} |-> IF i = id THEN c ELSE ch[i]]

WithoutBlock(s, b) == SelectSeq(s, LAMBDA x : x # b)

\* Step 7: extend the side chain whose tip is the parent; otherwise (the parent is
\* canonical, or already has a child in its side chain) start a chain with a new
\* identifier.
Attach(t, b) ==
    LET p == Parent(b)
        t1 == [t EXCEPT !.buffer = WithoutBlock(@, b), !.attached = @ \cup {b}]
    IN  IF /\ p \in StoreBlocks(t.chains)
           /\ t.chains[ChainOf(t.chains, p)].blocks[Len(t.chains[ChainOf(t.chains, p)].blocks)] = p
        THEN [t1 EXCEPT !.chains[ChainOf(t.chains, p)].blocks = Append(@, b)]
        ELSE [t1 EXCEPT !.chains = WithChain(@, t.next_id, [fork |-> p, blocks |-> <<b>>]),
                        !.next_id = @ + 1]

\* Steps 3 to 7 for one block whose parent is known.
Steps3to7(t, fin, b, verdict) ==
    LET e == InsertCheck(fin, b, verdict)
    IN  IF e # NoErr THEN [t |-> t, out |-> "Err", err |-> e]
        ELSE IF Known(t, b) THEN [t |-> t, out |-> "AlreadyKnown", err |-> NoErr]
        ELSE [t |-> Attach(t, b), out |-> "Inserted", err |-> NoErr]

\* Step 8: every buffered child of an attached block leaves the buffer and runs
\* through steps 3 to 7, and so on for its own children; a child that fails is
\* dropped.  todo lists the attached blocks whose children are still to be looked at.
RECURSIVE Promote(_, _, _, _)
Promote(t, fin, todo, v) ==
    IF todo = <<>> THEN t
    ELSE LET kids == { i \in DOMAIN t.buffer : Parent(t.buffer[i]) = Head(todo) }
         IN  IF kids = {} THEN Promote(t, fin, Tail(todo), v)
             ELSE LET i == CHOOSE k \in kids : \A j \in kids : k <= j
                      c == t.buffer[i]
                      t1 == [t EXCEPT !.buffer = WithoutBlock(@, c)]
                      r == Steps3to7(t1, fin, c, v[c])
                  IN  IF r.out = "Inserted"
                      THEN Promote(r.t, fin, Append(todo, c), v)
                      ELSE Promote(t1, fin, todo, v)

\* insert_block(block): v gives the collaborators' verdict on the block and on the
\* buffered blocks its insertion may promote.
insert_block(t, fin, b, v) ==
    IF ~ParentKnown(t, b)
    THEN [t |-> BufferBlock(t, b), out |-> "Buffered", err |-> NoErr]
    ELSE LET r == Steps3to7(t, fin, b, v[b])
         IN  IF r.out = "Inserted"
             THEN [r EXCEPT !.t = Promote(r.t, fin, <<b>>, v)]
             ELSE r

\* The buffered descendants of b: the blocks its insertion may promote.
RECURSIVE BufferedDesc(_, _)
BufferedDesc(buf, b) ==
    LET kids == { c \in Range(buf) : Parent(c) = b }
    IN  kids \cup UNION { BufferedDesc(buf, c) : c \in kids }

InsertBlock ==
    /\ ~halted
    /\ \E b \in Arriving :
       \E v \in [ IF ParentKnown(Tree, b) THEN {b} \cup BufferedDesc(buffer, b) ELSE {}
                  -> Verdicts ] :
          LET r == insert_block(Tree, finalized, b, v)
          IN  /\ r.t.next_id <= MaxChainId
              /\ canonical' = r.t.canonical
              /\ chains' = r.t.chains
              /\ buffer' = r.t.buffer
              /\ next_id' = r.t.next_id
              /\ attached' = r.t.attached
              /\ last' = [NoLast EXCEPT !.op = "insert_block", !.arg = b,
                                        !.verdict = IF b \in DOMAIN v THEN v[b] ELSE NoErr,
                                        !.out = r.out, !.err = r.err]
    /\ UNCHANGED <<finalized, halted, err_vars, rpc_vars, ibe_vars, key_vars, evm_vars>>

\* The side-chain blocks from the canonical fork point (excluded) up to block b.
RECURSIVE PathTo(_, _, _)
PathTo(ch, canon, b) ==
    LET c == ChainOf(ch, b)
        seg == SubSeq(ch[c].blocks, 1, IndexOf(ch[c].blocks, b))
    IN  IF ch[c].fork \in Range(canon) THEN seg
        ELSE PathTo(ch, canon, ch[c].fork) \o seg

\* Whether chain c of ch descends, through side chains of ch, from a block of roots.
RECURSIVE Rooted(_, _, _)
Rooted(ch, c, roots) ==
    \/ ch[c].fork \in roots
    \/ /\ ch[c].fork \in StoreBlocks(ch)
       /\ Rooted(ch, ChainOf(ch, ch[c].fork), roots)

Restrict(ch, ids) == [i \in ids |-> ch[i]]

\* The side-chain store after the blocks of path, ending in target, became
\* canonical: a chain committed in full is removed and its identifier freed; what
\* follows target in its chain stays pending under the same identifier; every chain
\* that no longer descends from the new tip is discarded.
AfterCommit_mut(ch, path, target) ==
    LET tc == ChainOf(ch, target)
        rest == SubSeq(ch[tc].blocks, IndexOf(ch[tc].blocks, target) + 1, Len(ch[tc].blocks))
        touched == { c \in DOMAIN ch : Range(ch[c].blocks) \cap Range(path) # {} }
        ch1 == IF rest = <<>>
               THEN Restrict(ch, (DOMAIN ch) \ touched)
               ELSE [i \in ((DOMAIN ch) \ touched) \cup {tc} |->
                        IF i = tc THEN [fork |-> target, blocks |-> rest] ELSE ch[i]]
    IN  ch1

AfterCommit(ch, path, target) ==
    LET tc == ChainOf(ch, target)
        rest == SubSeq(ch[tc].blocks, IndexOf(ch[tc].blocks, target) + 1, Len(ch[tc].blocks))
        touched == { c \in DOMAIN ch : Range(ch[c].blocks) \cap Range(path) # {} }
        ch1 == IF rest = <<>>
               THEN Restrict(ch, (DOMAIN ch) \ touched)
               ELSE [i \in ((DOMAIN ch) \ touched) \cup {tc} |->
                        IF i = tc THEN [fork |-> target, blocks |-> rest] ELSE ch[i]]
    IN  Restrict(ch1, { c \in DOMAIN ch1 : Rooted(ch1, c, {target}) })

\* The target is already part of the canonical chain.
IsCanonical_mut(t, target) == target = t.canonical[Len(t.canonical)]

IsCanonical(t, target) == target \in Range(t.canonical)

\* The canonical chain after the commit range is applied, in forward order, on top
\* of what the revert left.
Promoted_mut(kept, path) == Append(kept, path[Len(path)])

Promoted(kept, path) == kept \o path

McResult(t, out, err, reverted, committed) ==
    [t |-> t, out |-> out, err |-> err, reverted |-> reverted, committed |-> committed]

\* make_canonical(target_hash).  The revert range is reverted in reverse order and
\* then the commit range committed in forward order, each step one storage
\* transaction; revert_done and commit_done are the numbers of steps the storage
\* collaborator completes.  A step that fails ends the operation with the fatal
\* error of its phase: the steps before it stay applied, and the side-chain store is
\* discarded and promoted on success only, so after a fatal error the chains of the
\* commit range are either still in the store or already taken out of it (taken).
make_canonical(t, target, revert_done, commit_done, taken) ==
    IF IsCanonical(t, target)
    THEN McResult(t, "AlreadyCanonical", NoErr, <<>>, <<>>)
    ELSE IF target \notin StoreBlocks(t.chains)
    THEN McResult(t, "Err", Wrap("BlockchainTree", Leaf("BlockHashNotFoundInChain", target)),
                  <<>>, <<>>)
    ELSE LET path == PathTo(t.chains, t.canonical, target)
             anc == Parent(path[1])
             k == IndexOf(t.canonical, anc)
             n == Len(t.canonical)
             kept == SubSeq(t.canonical, 1, k)
             revert == SubSeq(t.canonical, k + 1, n)
             touched == { c \in DOMAIN t.chains : Range(t.chains[c].blocks) \cap Range(path) # {} }
             left == IF taken THEN Restrict(t.chains, (DOMAIN t.chains) \ touched) ELSE t.chains
         IN  IF revert_done < Len(revert)
             THEN McResult([t EXCEPT !.canonical = SubSeq(t.canonical, 1, n - revert_done),
                                     !.chains = left],
                           "Err", Wrap("CanonicalRevert", Leaf("msg", 0)),
                           SubSeq(t.canonical, n - revert_done + 1, n), <<>>)
             ELSE IF commit_done < Len(path)
             THEN McResult([t EXCEPT !.canonical = kept \o SubSeq(path, 1, commit_done),
                                     !.chains = left],
                           "Err", Wrap("CanonicalCommit", Leaf("msg", 0)),
                           revert, SubSeq(path, 1, commit_done))
             ELSE McResult([t EXCEPT !.canonical = Promoted(kept, path),
                                     !.chains = AfterCommit(@, path, target)],
                           "Committed", NoErr, revert, path)

\* What the storage collaborator can do in make_canonical(target): no transaction
\* is run for a target that is canonical or unknown; otherwise every step completes,
\* or a revert step fails (then no commit step is run), or a commit step fails.
StorageOutcomes(t, target) ==
    IF target \in Range(t.canonical) \/ target \notin StoreBlocks(t.chains)
    THEN { <<0, 0, FALSE>> }
    ELSE LET path == PathTo(t.chains, t.canonical, target)
             nrev == Len(t.canonical) - IndexOf(t.canonical, Parent(path[1]))
         IN  { <<nrev, Len(path), FALSE>> }
             \cup { <<r, 0, tk>> : r \in 0..(nrev - 1), tk \in BOOLEAN }
             \cup { <<nrev, c, tk>> : c \in 0..(Len(path) - 1), tk \in BOOLEAN }

MakeCanonical ==
    /\ ~halted
    /\ \E target \in DOMAIN BlockTable :
       \E so \in StorageOutcomes(Tree, target) :
          LET r == make_canonical(Tree, target, so[1], so[2], so[3])
          IN  /\ canonical' = r.t.canonical
              /\ chains' = r.t.chains
              /\ halted' = (r.out = "Err" /\ is_fatal(r.err))
              /\ last' = [NoLast EXCEPT !.op = "make_canonical", !.arg = target,
                                        !.out = r.out, !.err = r.err,
                                        !.reverted = r.reverted,
                                        !.committed = r.committed,
                                        !.storage = <<so[1], so[2]>>]
    /\ UNCHANGED <<buffer, finalized, next_id, attached, err_vars, rpc_vars, ibe_vars, key_vars, evm_vars>>

\* The finalized number advances to the number of a canonical block: side chains
\* that fork below it, and what descends from them, are pruned, and buffered blocks
\* at or below it are evicted.
FinalizeBlock ==
    /\ ~halted
    /\ \E n \in { Number(b) : b \in Range(canonical) } :
          /\ n > finalized
          /\ finalized' = n
          /\ chains' = Restrict(chains,
                          { c \in DOMAIN chains :
                               Rooted(chains, c, { b \in Range(canonical) : Number(b) >= n }) })
          /\ buffer' = SelectSeq(buffer, LAMBDA b : Number(b) > n)
          /\ last' = [NoLast EXCEPT !.op = "finalize_block", !.arg = n]
    /\ UNCHANGED <<canonical, next_id, halted, attached, err_vars, rpc_vars, ibe_vars, key_vars, evm_vars>>

(***************************************************************************)
(* Read-side block accessors (helpers/block.rs).  A call runs from one     *)
(* await point to the next in one step; the cache is updated concurrently  *)
(* by the chain's notifications, so it may change between two steps.       *)
(***************************************************************************)
BlockIds == { "latest", "pending", "earliest", "finalized", "safe", "number", "hash" }

Accessors == { "block_with_senders", "block_transaction_count", "load_block_and_receipts" }

is_pending_mut(id) == id = "latest"

is_pending(id) == id = "pending"

is_latest_mut(id) == id # "pending"

is_latest(id) == id = "latest"

\* let max_retries = 1;
max_retries_mut == 1 + 1

max_retries == 1

NoResult == [tag |-> "running", src |-> "-", h |-> 0]

Ok_Some(src, h) == [tag |-> "Some", src |-> src, h |-> h]

Ok_None == [tag |-> "None", src |-> "-", h |-> 0]

Err_mut(src) == [tag |-> "None", src |-> "-", h |-> 0]

Err(src) == [tag |-> "Err", src |-> src, h |-> 0]

\* The answers of a fallible collaborator call returning an Option.
Answers == { "err", "none", "some" }

Ev(op, r) == [op |-> op, r |-> r]

IsCacheGet(e) == e.op = "cache_get"

\* The cache lookups made so far, in order.
CacheGets(h) == SelectSeq(h, IsCacheGet)

\* What a cache lookup of hash h answers: an error, or whether h is visible now.
CacheAnswers(h) == { "err", IF h \in cache THEN "some" ELSE "none" }

InitRpcVars ==
    /\ call = [fn |-> "none", id |-> "latest"]
    /\ pc = "idle"
    /\ attempt = 0
    /\ resolved = 0
    /\ hist = <<>>
    /\ result = NoResult
    /\ cache = {}

InitRpc ==
    /\ call \in [fn : Accessors, id : BlockIds]
    /\ pc = "start"
    /\ attempt = 0
    /\ resolved = 0
    /\ hist = <<>>
    /\ result = NoResult
    /\ cache \in SUBSET Hashes
    /\ InitErrVars
    /\ InitTreeVars
    /\ InitIbeVars
    /\ InitKeyVars
    /\ InitEvmVars

Return(r) ==
    /\ pc' = "done"
    /\ result' = r

\* provider.block_hash_for_id(block_id), shared by the three accessors: an error is
\* returned, no hash gives Ok(None), a hash leads to the cache lookup.
Resolve ==
    \E r \in Answers, h \in Hashes :
       /\ hist' = Append(hist, Ev("block_hash_for_id", r))
       /\ IF r = "err"
          THEN Return(Err("block_hash_for_id")) /\ UNCHANGED <<resolved, attempt>>
          ELSE IF r = "none"
          THEN Return(Ok_None) /\ UNCHANGED <<resolved, attempt>>
          ELSE /\ resolved' = h
               /\ attempt' = 0
               /\ pc' = "lookup"
               /\ UNCHANGED result

\* LoadBlock::block_with_senders, up to its first await.
BWS_Start ==
    /\ call.fn = "block_with_senders"
    /\ pc = "start"
    /\ IF is_pending(call.id)
       THEN \E r \in Answers :
               /\ hist' = Append(hist, Ev("pending_block", r))
               /\ IF r = "err" THEN Return(Err("pending_block"))
                  ELSE IF r = "some" THEN Return(Ok_Some("pending_block", 0))
                  ELSE pc' = "local_pending" /\ UNCHANGED result
               /\ UNCHANGED <<resolved, attempt>>
       ELSE Resolve
    /\ UNCHANGED <<call, cache, err_vars, tree_vars, ibe_vars, key_vars, evm_vars>>

\* self.local_pending_block().await of block_with_senders.
BWS_LocalPending ==
    /\ call.fn = "block_with_senders"
    /\ pc = "local_pending"
    /\ \E r \in Answers :
          /\ hist' = Append(hist, Ev("local_pending_block", r))
          /\ IF r = "err" THEN Return(Err("local_pending_block"))
             ELSE IF r = "some" THEN Return(Ok_Some("local_pending_block", 0))
             ELSE Return(Ok_None)
    /\ UNCHANGED <<call, attempt, resolved, cache, err_vars, tree_vars, ibe_vars, key_vars, evm_vars>>

\* One iteration of `for _ in 0..=max_retries` of block_with_senders.
BWS_Lookup ==
    /\ call.fn = "block_with_senders"
    /\ pc = "lookup"
    /\ attempt <= max_retries
    /\ \E r \in CacheAnswers(resolved) :
          /\ hist' = Append(hist, Ev("cache_get", r))
          /\ IF r = "some" THEN Return(Ok_Some("cache", resolved)) /\ UNCHANGED attempt
             ELSE IF r = "none" /\ is_latest(call.id)
             THEN /\ attempt' = attempt + 1
                  /\ IF attempt + 1 > max_retries
                     THEN Return(Ok_None)
                     ELSE UNCHANGED <<pc, result>>
             ELSE IF r = "none" THEN Return(Ok_None) /\ UNCHANGED attempt
             ELSE Return(Err("cache")) /\ UNCHANGED attempt
    /\ UNCHANGED <<call, resolved, cache, err_vars, tree_vars, ibe_vars, key_vars, evm_vars>>

\* EthBlocks::block_transaction_count, up to its await.
BTC_Start ==
    /\ call.fn = "block_transaction_count"
    /\ pc = "start"
    /\ IF is_pending(call.id)
       THEN \E r \in Answers :
               /\ hist' = Append(hist, Ev("pending_block", r))
               /\ IF r = "err" THEN Return(Err("pending_block"))
                  ELSE IF r = "some" THEN Return(Ok_Some("pending_block", 0))
                  ELSE Return(Ok_None)
               /\ UNCHANGED <<resolved, attempt>>
       ELSE Resolve
    /\ UNCHANGED <<call, cache, err_vars, tree_vars, ibe_vars, key_vars, evm_vars>>

\* The single cache().get_sealed_block_with_senders(..).await of
\* block_transaction_count.
BTC_Lookup ==
    /\ call.fn = "block_transaction_count"
    /\ pc = "lookup"
    /\ \E r \in CacheAnswers(resolved) :
          /\ hist' = Append(hist, Ev("cache_get", r))
          /\ IF r = "err" THEN Return(Err("cache"))
             ELSE IF r = "some" THEN Return(Ok_Some("cache", resolved))
             ELSE Return(Ok_None)
    /\ UNCHANGED <<call, attempt, resolved, cache, err_vars, tree_vars, ibe_vars, key_vars, evm_vars>>

\* EthBlocks::load_block_and_receipts, up to its first await.
LBR_Start ==
    /\ call.fn = "load_block_and_receipts"
    /\ pc = "start"
    /\ IF is_pending(call.id)
       THEN \E r \in Answers :
               /\ hist' = Append(hist, Ev("pending_block", r))
               /\ IF r = "err" THEN Return(Err("pending_block"))
                  ELSE IF r = "some" THEN Return(Ok_Some("pending_block", 0))
                  ELSE pc' = "local_pending" /\ UNCHANGED result
               /\ UNCHANGED <<resolved, attempt>>
       ELSE Resolve
    /\ UNCHANGED <<call, cache, err_vars, tree_vars, ibe_vars, key_vars, evm_vars>>

\* self.local_pending_block().await of load_block_and_receipts, and, when there is
\* no local pending block either, the fall through to block_hash_for_id.
LBR_LocalPending ==
    /\ call.fn = "load_block_and_receipts"
    /\ pc = "local_pending"
    /\ \E r \in Answers :
          IF r = "err"
          THEN /\ hist' = Append(hist, Ev("local_pending_block", r))
               /\ Return(Err("local_pending_block"))
               /\ UNCHANGED <<resolved, attempt>>
          ELSE IF r = "some"
          THEN /\ hist' = Append(hist, Ev("local_pending_block", r))
               /\ Return(Ok_Some("local_pending_block", 0))
               /\ UNCHANGED <<resolved, attempt>>
          ELSE \E q \in Answers, h \in Hashes :
                  /\ hist' = hist \o << Ev("local_pending_block", r),
                                        Ev("block_hash_for_id", q) >>
                  /\ IF q = "err"
                     THEN Return(Err("block_hash_for_id")) /\ UNCHANGED <<resolved, attempt>>
                     ELSE IF q = "none"
                     THEN Return(Ok_None) /\ UNCHANGED <<resolved, attempt>>
                     ELSE /\ resolved' = h
                          /\ attempt' = 0
                          /\ pc' = "lookup"
                          /\ UNCHANGED result
    /\ UNCHANGED <<call, cache, err_vars, tree_vars, ibe_vars, key_vars, evm_vars>>

\* The single cache().get_block_and_receipts(..).await of load_block_and_receipts.
LBR_Lookup ==
    /\ call.fn = "load_block_and_receipts"
    /\ pc = "lookup"
    /\ \E r \in CacheAnswers(resolved) :
          /\ hist' = Append(hist, Ev("cache_get", r))
          /\ IF r = "err" THEN Return(Err("cache"))
             ELSE IF r = "some" THEN Return(Ok_Some("cache", resolved))
             ELSE Return(Ok_None)
    /\ UNCHANGED <<call, attempt, resolved, cache, err_vars, tree_vars, ibe_vars, key_vars, evm_vars>>

\* The cache is filled and emptied by the chain's notifications, whatever the call does.
CacheInsert ==
    /\ \E h \in Hashes \ cache : cache' = cache \cup {h}
    /\ UNCHANGED <<call, pc, attempt, resolved, hist, result, err_vars, tree_vars, ibe_vars, key_vars, evm_vars>>

CacheEvict ==
    /\ \E h \in cache : cache' = cache \ {h}
    /\ UNCHANGED <<call, pc, attempt, resolved, hist, result, err_vars, tree_vars, ibe_vars, key_vars, evm_vars>>

NextRpc ==
    \/ BWS_Start
    \/ BWS_LocalPending
    \/ BWS_Lookup
    \/ BTC_Start
    \/ BTC_Lookup
    \/ LBR_Start
    \/ LBR_LocalPending
    \/ LBR_Lookup
    \/ CacheInsert
    \/ CacheEvict

SpecRpc == InitRpc /\ [][NextRpc]_vars

(***************************************************************************)
(* The error taxonomy as a state machine: an error value is drawn, and the *)
(* classification predicates are called on it.                             *)
(***************************************************************************)
InitErr ==
    /\ kind \in InsertBlockErrorKinds
    /\ canon_err \in CanonicalErrors
    /\ ret = NoRet
    /\ opt = None
    /\ InitRpcVars
    /\ InitTreeVars
    /\ InitIbeVars
    /\ InitKeyVars
    /\ InitEvmVars

\* A call of a predicate: its name and its result are recorded.
Returns(fn, val) ==
    /\ ret' = [fn |-> fn, val |-> val]
    /\ opt' = None
    /\ UNCHANGED <<kind, canon_err, rpc_vars, tree_vars, ibe_vars, key_vars, evm_vars>>

\* A call of an as_* accessor: the Option is recorded, with is_some() as the result.
ReturnsOption(fn, o) ==
    /\ ret' = [fn |-> fn, val |-> o # None]
    /\ opt' = o
    /\ UNCHANGED <<kind, canon_err, rpc_vars, tree_vars, ibe_vars, key_vars, evm_vars>>

Call_is_invalid_block == Returns("is_invalid_block", is_invalid_block(kind))

Call_is_fatal == Returns("is_fatal", is_fatal(canon_err))

Call_is_state_root_error == Returns("is_state_root_error", is_state_root_error(kind))

Call_is_tree_error == Returns("is_tree_error", is_tree_error(kind))

Call_is_consensus_error == Returns("is_consensus_error", is_consensus_error(kind))

Call_is_execution_error == Returns("is_execution_error", is_execution_error(kind))

Call_is_internal == Returns("is_internal", is_internal(kind))

Call_is_block_pre_merge == Returns("is_block_pre_merge", is_block_pre_merge(kind))

Call_as_tree_error == ReturnsOption("as_tree_error", as_tree_error(kind))

Call_as_consensus_error == ReturnsOption("as_consensus_error", as_consensus_error(kind))

Call_as_execution_error == ReturnsOption("as_execution_error", as_execution_error(kind))

NextErr ==
    \/ Call_is_invalid_block
    \/ Call_is_fatal
    \/ Call_is_state_root_error
    \/ Call_is_tree_error
    \/ Call_is_consensus_error
    \/ Call_is_execution_error
    \/ Call_is_internal
    \/ Call_is_block_pre_merge
    \/ Call_as_tree_error
    \/ Call_as_consensus_error
    \/ Call_as_execution_error

SpecErr == InitErr /\ [][NextErr]_vars

(***************************************************************************)
(* InsertBlockError as a state machine: a constructor is called with its   *)
(* arguments, and the error is read or taken apart by the accessors.       *)
(***************************************************************************)
InitInsertErr ==
    /\ made \in ConstructorCalls
    /\ error = NoInsertBlockError
    /\ got = NoGot
    /\ InitErrVars
    /\ InitRpcVars
    /\ InitTreeVars
    /\ InitKeyVars
    /\ InitEvmVars

NextInsertErr ==
    \/ Make_new
    \/ Make_tree_error
    \/ Make_consensus_error
    \/ Make_sender_recovery_error
    \/ Make_execution_error
    \/ Make_from_reth_error
    \/ Get_kind
    \/ Get_block
    \/ Take_into_block
    \/ Take_split

SpecInsertErr == InitInsertErr /\ [][NextInsertErr]_vars

(***************************************************************************)
(* BlockNumberAddress as a state machine: a key or a byte string is given  *)
(* and converted back and forth, or a range is made and a key looked up.   *)
(***************************************************************************)
InitKey ==
    /\ \/ /\ key \in { KeyOf("input", n, a) : n \in EncodedNums, a \in Addresses }
          /\ encoded = NoBuf
          /\ range_in = [start |-> Small(0), end |-> Small(0)]
          /\ probe = NoKey
       \/ /\ key = NoKey
          /\ encoded \in { BufOf("input", b) : b \in ByteStrings }
          /\ range_in = [start |-> Small(0), end |-> Small(0)]
          /\ probe = NoKey
       \/ /\ key = NoKey
          /\ encoded = NoBuf
          /\ range_in \in [start : RangeNums, end : RangeNums]
          /\ probe \in { KeyOf("input", n, a) : n \in RangeNums, a \in Addresses }
    /\ orig = [key |-> key, encoded |-> encoded]
    /\ range_out = NoRange
    /\ InitErrVars
    /\ InitRpcVars
    /\ InitTreeVars
    /\ InitIbeVars
    /\ InitEvmVars

NextKey ==
    \/ Encode
    \/ Decode
    \/ MakeRange
    \/ Contains

SpecKey == InitKey /\ [][NextKey]_vars

(***************************************************************************)
(* The EVM environment as a state machine: a header is given and the block *)
(* environment is filled from it, any number of times.                     *)
(***************************************************************************)
InitEvm ==
    /\ header \in Headers
    /\ cfg \in { SpecIds[i] : i \in DOMAIN SpecIds }
    /\ block_env \in BlockEnvs
    /\ filled = NoFill
    /\ InitErrVars
    /\ InitRpcVars
    /\ InitTreeVars
    /\ InitIbeVars
    /\ InitKeyVars

NextEvm ==
    \/ FillBlockEnv
    \/ FillCfgAndBlockEnv

SpecEvm == InitEvm /\ [][NextEvm]_vars

(***************************************************************************)
(* The blockchain tree as a state machine: blocks arrive and heads are     *)
(* chosen in any order.                                                    *)
(***************************************************************************)
InitTree ==
    /\ InitTreeVars
    /\ InitErrVars
    /\ InitRpcVars
    /\ InitIbeVars
    /\ InitKeyVars
    /\ InitEvmVars

NextTree ==
    \/ InsertBlock
    \/ MakeCanonical
    \/ FinalizeBlock

SpecTree == InitTree /\ [][NextTree]_vars

(***************************************************************************)
(* Claims about the error taxonomy (specification SpecErr).                *)
(***************************************************************************)
\* Whether the variants of error value e start with the sequence p.
Prefix(e, p) == Len(e.path) >= Len(p) /\ SubSeq(e.path, 1, Len(p)) = p

\* The invalid-block table of the taxonomy.
InvalidBlockTable(k) ==
    \/ Prefix(k, <<"SenderRecovery">>)
    \/ Prefix(k, <<"Consensus">>)
    \/ Prefix(k, <<"Execution", "Validation">>)
    \/ Prefix(k, <<"Tree", "PendingBlockIsFinalized">>)
    \/ Prefix(k, <<"Canonical", "Validation">>)

\* C1: for every InsertBlockErrorKind value, is_invalid_block() returns true exactly
\* when the value is SenderRecovery, Consensus(_), Execution(Validation(_)),
\* Tree(PendingBlockIsFinalized) or Canonical(Validation(_)), and false for every
\* other variant and sub-variant.
C1_IsInvalidBlockTable ==
    ret.fn = "is_invalid_block" => (ret.val <=> InvalidBlockTable(kind))

C1_Witness ==
    /\ ret.fn = "is_invalid_block"
    /\ ~ret.val
    /\ Prefix(kind, <<"BlockchainTree", "PendingBlockIsFinalized">>)

\* C2: for every CanonicalError value e, e.is_fatal() is true if and only if e is
\* CanonicalCommit(_) or CanonicalRevert(_); it is false for Validation,
\* BlockchainTree, Provider and OptimisticTargetRevert.
C2_IsFatalIffCommitOrRevert ==
    ret.fn = "is_fatal" =>
        /\ ret.val <=> (Prefix(canon_err, <<"CanonicalCommit">>)
                        \/ Prefix(canon_err, <<"CanonicalRevert">>))
        /\ canon_err.path[1] \in { "Validation", "BlockchainTree", "Provider",
                                   "OptimisticTargetRevert" } => ~ret.val

C2_Witness ==
    /\ ret.fn = "is_fatal"
    /\ ret.val
    /\ Prefix(canon_err, <<"CanonicalRevert">>)

(***************************************************************************)
(* Claims about the blockchain tree (specification SpecTree).              *)
(***************************************************************************)
Canon == Range(canonical)

Store == StoreBlocks(chains)

PendingBlockIsFinalized(n) == Wrap("Tree", Leaf("PendingBlockIsFinalized", n))

\* C3: insert_block of a block whose parent is in neither the canonical chain nor a
\* side chain returns the buffered outcome and changes neither the side-chain store
\* nor the canonical chain; and a block is in the store (or canonical) only once its
\* parent has been attached.
C3_UnknownParentIsBuffered ==
    /\ [](\A b \in Store \cup Canon : b = 1 \/ Parent(b) \in attached)
    /\ [][ \A b \in Arriving :
              (/\ last'.op = "insert_block"
               /\ last'.arg = b
               /\ Parent(b) \notin Canon
               /\ Parent(b) \notin Store)
              => /\ last'.out = "Buffered"
                 /\ b \in Range(buffer')
                 /\ chains' = chains
                 /\ canonical' = canonical ]_vars

C3_Witness ==
    /\ last.op = "insert_block"
    /\ last.out = "Buffered"
    /\ last.arg = 4
    /\ 4 \in Range(buffer)
    /\ Parent(4) \notin attached
    /\ 4 \notin Store

\* C4: insert_block of a block whose number is at or below the last finalized
\* number is rejected with PendingBlockIsFinalized carrying that number, whatever the
\* verdict of consensus validation, sender recovery and execution on the block.
C4_FinalizedAlwaysRejected ==
    (last.op = "insert_block" /\ Number(last.arg) <= finalized)
        => (last.out = "Err" /\ last.err = PendingBlockIsFinalized(finalized))

\* The side chains that descend from the canonical tip.
OffTip == { c \in DOMAIN chains : chains[c].fork = canonical[Len(canonical)] }

ChainTip(c) == chains[c].blocks[Len(chains[c].blocks)]

C6_ForksNeverOverwrite ==
    /\ [](/\ (2 \in Store /\ 3 \in Store) => ChainOf(chains, 2) # ChainOf(chains, 3)
          /\ ~(2 \in Canon /\ 3 \in Canon)
          /\ canonical[1] = 1
          /\ \A i \in 2..Len(canonical) : Parent(canonical[i]) = canonical[i - 1]
          /\ (last.op = "make_canonical" /\ last.out = "Committed"
              /\ 2 \in Range(last.committed)) => 3 \notin Store)
    /\ [][ /\ (2 \in Canon /\ last'.op = "make_canonical" /\ last'.arg = 3)
              => \/ last'.out = "Err"
                 \/ (2 \in Range(last'.reverted) /\ 3 \in Range(last'.committed))
           /\ (2 \in Canon /\ 3 \in Range(canonical'))
              => (last'.op = "make_canonical" /\ 2 \in Range(last'.reverted)) ]_vars

C6_Witness ==
    /\ last.op = "make_canonical"
    /\ last.arg = 3
    /\ last.out = "Committed"
    /\ last.reverted = <<2>>
    /\ canonical = <<1, 3>>

\* C7: make_canonical of a target that is already canonical returns the successful
\* no-op outcome, reverts and commits nothing, and leaves the canonical chain, the
\* side-chain store and the buffer as they were; so does every repetition.
C7_AlreadyCanonicalIsNoOp ==
    [][ \A t \in DOMAIN BlockTable :
           (last'.op = "make_canonical" /\ last'.arg = t /\ t \in Canon)
           => /\ last'.out = "AlreadyCanonical"
              /\ last'.reverted = <<>>
              /\ last'.committed = <<>>
              /\ ~halted'
              /\ UNCHANGED <<canonical, chains, buffer, finalized, next_id>> ]_vars

C7_Witness ==
    /\ last.op = "make_canonical"
    /\ last.out = "AlreadyCanonical"
    /\ last.arg = 1
    /\ Len(canonical) = 3
    /\ chains # <<>>

(***************************************************************************)
(* Claims about the block accessors (specification SpecRpc).               *)
(***************************************************************************)
\* The answers of the cache lookups the call made, in order.
Lookups == CacheGets(hist)

\* C8: block_with_senders for a 'latest' id that resolves to a hash makes at most two
\* cache lookups; a miss is followed by a second lookup; a miss then a hit returns
\* the found block; two misses return None; after the second lookup the call has
\* returned, whatever the cache answers.
C8_LatestRetriesOnce ==
    (call.fn = "block_with_senders" /\ call.id = "latest") =>
        /\ Len(Lookups) <= 2
        /\ (Len(Lookups) = 2 => pc = "done")
        /\ (Len(Lookups) = 1 /\ Lookups[1].r = "none" => pc = "lookup")
        /\ (Len(Lookups) = 2 /\ Lookups[1].r = "none" /\ Lookups[2].r = "some"
               => result = Ok_Some("cache", resolved))
        /\ (Len(Lookups) = 2 /\ Lookups[1].r = "none" /\ Lookups[2].r = "none"
               => result = Ok_None)

C8_Witness ==
    /\ call.fn = "block_with_senders"
    /\ call.id = "latest"
    /\ pc = "done"
    /\ Len(Lookups) = 2
    /\ Lookups[1].r = "none"
    /\ Lookups[2].r = "some"
    /\ result = Ok_Some("cache", resolved)

\* C9: block_with_senders for an id that is neither 'pending' nor 'latest' makes
\* exactly one cache lookup when the id resolves to a hash; on a miss it returns
\* None at once, also when the block is in the cache afterwards.
C9_NonLatestNoRetry ==
    (call.fn = "block_with_senders" /\ call.id \notin { "pending", "latest" }) =>
        /\ Len(Lookups) <= 1
        /\ (pc = "done" /\ resolved # 0 => Len(Lookups) = 1)
        /\ (Len(Lookups) = 1 => pc = "done")
        /\ (Len(Lookups) = 1 /\ Lookups[1].r = "none" => result = Ok_None)

C9_Witness ==
    /\ call.fn = "block_with_senders"
    /\ call.id = "number"
    /\ pc = "done"
    /\ Len(Lookups) = 1
    /\ Lookups[1].r = "none"
    /\ result = Ok_None
    /\ resolved \in cache

\* C10: every accessor that resolves 'latest' and reads the block from the cache
\* (block_with_senders, block_transaction_count, load_block_and_receipts) retries
\* the lookup once after a first miss: a call that returned after a first miss has
\* made a second lookup.
C10_EveryAccessorRetriesLatest ==
    (call.id = "latest" /\ pc = "done" /\ Len(Lookups) >= 1 /\ Lookups[1].r = "none")
        => Len(Lookups) = 2


\* C17: for a 'pending' id, block_with_senders never consults the cache and never
\* retries: it asks the provider for the pending block once, builds the local
\* pending block only after the provider returned none, and returns the provider's
\* block, else the local one, else None.
C17_PendingBypassesCache ==
    (call.fn = "block_with_senders" /\ call.id = "pending") =>
        /\ Len(Lookups) = 0
        /\ \A i \in DOMAIN hist : hist[i].op # "block_hash_for_id"
        /\ Len(hist) <= 2
        /\ (Len(hist) >= 1 => hist[1].op = "pending_block")
        /\ (Len(hist) = 2 => hist[2].op = "local_pending_block" /\ hist[1].r = "none")
        /\ (Len(hist) = 1 /\ hist[1].r = "some"
               => pc = "done" /\ result = Ok_Some("pending_block", 0))
        /\ (Len(hist) = 1 /\ hist[1].r = "none" => pc = "local_pending")
        /\ (Len(hist) = 2 => pc = "done")
        /\ (Len(hist) = 2 /\ hist[2].r = "some"
               => result = Ok_Some("local_pending_block", 0))
        /\ (Len(hist) = 2 /\ hist[2].r = "none" => result = Ok_None)

C17_Witness ==
    /\ call.fn = "block_with_senders"
    /\ call.id = "pending"
    /\ pc = "done"
    /\ Len(hist) = 2
    /\ hist[1] = Ev("pending_block", "none")
    /\ hist[2] = Ev("local_pending_block", "some")
    /\ result = Ok_Some("local_pending_block", 0)
    /\ cache # {}

\* C18: in block_with_senders a failure is never retried and never turned into 'not
\* found': an error from resolving the id or from any cache lookup ends the call at
\* once with an error result and no further lookup; when the id resolves to no hash,
\* None is returned without any cache lookup.
C18_ErrorsReturnedAtOnce ==
    call.fn = "block_with_senders" =>
        /\ \A i \in DOMAIN hist :
              hist[i].r = "err" =>
                 /\ i = Len(hist)
                 /\ pc = "done"
                 /\ result.tag = "Err"
                 /\ result.src = (IF hist[i].op = "cache_get" THEN "cache" ELSE hist[i].op)
        /\ \A i \in DOMAIN hist :
              (hist[i].op = "block_hash_for_id" /\ hist[i].r = "none") =>
                 /\ pc = "done"
                 /\ result = Ok_None
                 /\ Len(Lookups) = 0

C18_Witness ==
    /\ call.fn = "block_with_senders"
    /\ call.id = "latest"
    /\ pc = "done"
    /\ Len(Lookups) = 2
    /\ Lookups[1].r = "none"
    /\ Lookups[2].r = "err"
    /\ result = Err("cache")

(***************************************************************************)
(* Further claims about the error taxonomy (specification SpecErr).        *)
(***************************************************************************)
\* The state-root table of the taxonomy.
StateRootTable(k) ==
    \/ Prefix(k, <<"Execution", "Validation", "StateRoot">>)
    \/ Prefix(k, <<"Canonical", "Validation", "StateRoot">>)
    \/ Prefix(k, <<"Canonical", "Provider", "StateRootMismatch">>)
    \/ Prefix(k, <<"Canonical", "Provider", "UnwindStateRootMismatch">>)
    \/ Prefix(k, <<"Provider", "StateRootMismatch">>)
    \/ Prefix(k, <<"Provider", "UnwindStateRootMismatch">>)

\* C11: for every InsertBlockErrorKind value, is_state_root_error() is true exactly
\* when the value is Execution(Validation(StateRoot)), Canonical(Validation(StateRoot)),
\* Canonical(Provider(StateRootMismatch or UnwindStateRootMismatch)) or
\* Provider(StateRootMismatch or UnwindStateRootMismatch), and false otherwise.
C11_IsStateRootErrorTable ==
    ret.fn = "is_state_root_error" => (ret.val <=> StateRootTable(kind))

C11_Witness ==
    /\ ret.fn = "is_state_root_error"
    /\ ret.val
    /\ Prefix(kind, <<"Canonical", "Provider", "UnwindStateRootMismatch">>)

\* C15: is_invalid_block() is true for every error kind that carries the
\* finalized-height violation PendingBlockIsFinalized: Tree(..), BlockchainTree(..)
\* and Canonical(BlockchainTree(..)).
C15_FinalizedHeightAlwaysInvalid ==
    ( /\ ret.fn = "is_invalid_block"
      /\ \/ Prefix(kind, <<"Tree", "PendingBlockIsFinalized">>)
         \/ Prefix(kind, <<"BlockchainTree", "PendingBlockIsFinalized">>)
         \/ Prefix(kind, <<"Canonical", "BlockchainTree", "PendingBlockIsFinalized">>) )
    => ret.val

\* C16: is_tree_error, is_consensus_error, is_execution_error and is_internal are
\* each true for exactly one top-level variant (Tree, Consensus, Execution,
\* Internal), so at most one holds for a value; as_tree_error, as_consensus_error
\* and as_execution_error return Some (of the inner error) exactly when the matching
\* predicate is true; is_tree_error is false for BlockchainTree(_); and
\* is_block_pre_merge implies is_execution_error and is_invalid_block.
C16_SingleVariantPredicates ==
    /\ ret.fn = "is_tree_error" => (ret.val <=> Prefix(kind, <<"Tree">>))
    /\ ret.fn = "is_consensus_error" => (ret.val <=> Prefix(kind, <<"Consensus">>))
    /\ ret.fn = "is_execution_error" => (ret.val <=> Prefix(kind, <<"Execution">>))
    /\ ret.fn = "is_internal" => (ret.val <=> Prefix(kind, <<"Internal">>))
    /\ Cardinality({ i \in 1..4 : << is_tree_error(kind), is_consensus_error(kind),
                                     is_execution_error(kind), is_internal(kind) >>[i] }) <= 1
    /\ ret.fn = "as_tree_error" =>
          /\ opt # None <=> is_tree_error(kind)
          /\ opt # None => opt = Some(Inner(kind))
    /\ ret.fn = "as_consensus_error" =>
          /\ opt # None <=> is_consensus_error(kind)
          /\ opt # None => opt = Some(Inner(kind))
    /\ ret.fn = "as_execution_error" =>
          /\ opt # None <=> is_execution_error(kind)
          /\ opt # None => opt = Some(Inner(kind))
    /\ (ret.fn = "is_tree_error" /\ Prefix(kind, <<"BlockchainTree">>)) => ~ret.val
    /\ (ret.fn = "is_block_pre_merge" /\ ret.val) =>
          /\ is_execution_error(kind)
          /\ is_invalid_block(kind)

C16_Witness ==
    /\ ret.fn = "as_tree_error"
    /\ Prefix(kind, <<"Tree", "BlockBufferingFailed">>)
    /\ opt = Some(Inner(kind))
    /\ is_tree_error(kind)
    /\ ~is_execution_error(kind)

(***************************************************************************)
(* Claims about InsertBlockError (specification SpecInsertErr).            *)
(***************************************************************************)
\* The kind a constructor is to store for its argument.
ExpectedKind ==
    CASE made.ctor = "new" -> made.arg
      [] made.ctor = "tree_error" -> Wrap("Tree", made.arg)
      [] made.ctor = "consensus_error" -> Wrap("Consensus", made.arg)
      [] made.ctor = "sender_recovery_error" -> Leaf("SenderRecovery", 0)
      [] made.ctor = "execution_error" -> Wrap("Execution", made.arg)

\* C12: an InsertBlockError carries the offending block and its classification
\* unchanged: after new(b, k), split() returns (b, k), block() and into_block()
\* return b and kind() returns k; tree_error, consensus_error, sender_recovery_error
\* and execution_error store the given block with the kind Tree, Consensus,
\* SenderRecovery and Execution around the given error.
C12_BlockAndKindKept ==
    made.ctor \in { "new", "tree_error", "consensus_error", "sender_recovery_error",
                    "execution_error" } =>
        /\ error # NoInsertBlockError =>
              error = [block |-> made.block, kind |-> ExpectedKind]
        /\ got.fn = "split" => (got.block = made.block /\ got.kind = ExpectedKind)
        /\ got.fn \in { "block", "into_block" } => got.block = made.block
        /\ got.fn = "kind" => got.kind = ExpectedKind

C12_Witness ==
    /\ made.ctor = "tree_error"
    /\ made.arg = Leaf("PendingBlockIsFinalized", 1)
    /\ got.fn = "split"
    /\ got.block = made.block
    /\ got.kind = Wrap("Tree", made.arg)
    /\ error = NoInsertBlockError

\* The kind from_reth_error is to give for the RethError e.
FromRethTable(e, k) ==
    /\ Head1(e) \in { "Execution", "Consensus", "Canonical" } =>
          (Head1(k) = Head1(e) /\ Inner(k) = Inner(e))
    /\ Head1(e) \in { "Database", "Provider", "Network", "Custom" } =>
          /\ Prefix(k, <<"Internal">>)
          /\ is_internal(k)
          /\ ~is_invalid_block(k)
          /\ ~is_state_root_error(k)
    /\ Head1(k) \notin { "SenderRecovery", "Tree", "Provider", "BlockchainTree" }

\* C20: from_reth_error keeps the given block; RethError::Execution, Consensus and
\* Canonical keep their category and inner error; Database, Provider, Network and
\* Custom become Internal, for which is_internal is true and is_invalid_block and
\* is_state_root_error are false (also for a state-root provider error); the kind
\* is never SenderRecovery, Tree, Provider or BlockchainTree.
C20_FromRethErrorMapping ==
    made.ctor = "from_reth_error" =>
        /\ error # NoInsertBlockError =>
              (error.block = made.block /\ FromRethTable(made.arg, error.kind))
        /\ got.fn \in { "kind", "split" } => FromRethTable(made.arg, got.kind)
        /\ got.fn \in { "block", "into_block", "split" } => got.block = made.block

C20_Witness ==
    /\ made.ctor = "from_reth_error"
    /\ made.arg = Wrap("Provider", Leaf("StateRootMismatch", 0))
    /\ got.fn = "kind"
    /\ is_internal(got.kind)
    /\ ~is_state_root_error(got.kind)
    /\ error.block = made.block

(***************************************************************************)
(* Claims about BlockNumberAddress (specification SpecKey).                *)
(***************************************************************************)
\* Whether the 28 bytes s are the block number num as 8 big-endian bytes followed
\* by the 20 bytes of addr.
Layout(s, num, addr) ==
    /\ Len(s) = 28
    /\ \A j \in 1..4 : s[2 * j - 1] * 256 + s[2 * j] = num[j]
    /\ SubSeq(s, 9, 28) = addr

\* C13: the encoding is a bijection with the 28-byte layout: encode gives the block
\* number as 8 big-endian bytes followed by the 20 address bytes, decode(encode(k))
\* is k for every key k, and encode(decode(s)) is s for every 28-byte string s.
C13_EncodeDecodeBijection ==
    /\ (orig.key.tag = "key" /\ encoded.via = "encode") =>
          Layout(encoded.bytes, orig.key.num, orig.key.addr)
    /\ (orig.key.tag = "key" /\ key.via = "decode") =>
          (key.tag = "key" /\ key.num = orig.key.num /\ key.addr = orig.key.addr)
    /\ (Len(orig.encoded.bytes) = 28 /\ key.via = "decode") =>
          (key.tag = "key" /\ Layout(orig.encoded.bytes, key.num, key.addr))
    /\ (Len(orig.encoded.bytes) = 28 /\ encoded.via = "encode") =>
          encoded.bytes = orig.encoded.bytes

C13_Witness ==
    /\ orig.key.tag = "key"
    /\ key.via = "decode"
    /\ key.num = <<0, 258, 65535, 258>>
    /\ key.addr[1] = 186
    /\ key.num = orig.key.num

\* a <= b for two u64.
NumLeq(a, b) == a = b \/ SeqLess(a, b)

\* C14: range treats its end as inclusive: for every range a..=b of 64-bit block
\* numbers (b = 2^64 - 1 included) range returns a range, and the key (n, x) lies
\* in it if and only if a <= n <= b.
C14_RangeEndInclusive ==
    range_out.tag # "none" =>
        /\ range_out.tag = "range"
        /\ range_out.hit # "-" =>
              (range_out.hit = "in" <=>
                  (NumLeq(range_in.start, probe.num) /\ NumLeq(probe.num, range_in.end)))

(***************************************************************************)
(* Claims about the EVM environment (specification SpecEvm).               *)
(***************************************************************************)
\* C19: fill_block_env gives prevrandao = Some(header.mix_hash) and difficulty = 0
\* when after_merge is true, difficulty = header.difficulty and prevrandao = None
\* when it is false; number, coinbase, timestamp and gas limit are the header's and
\* basefee is the header's base fee, or 0 when it has none.  fill_cfg_and_block_env
\* passes after_merge = (the spec id fill_cfg_env chose >= MERGE).
C19_FillBlockEnvMergeFields ==
    filled.fn # "none" =>
        /\ filled.after_merge =>
              (block_env.prevrandao = SomeOf(header.mix_hash) /\ block_env.difficulty = 0)
        /\ ~filled.after_merge =>
              (block_env.difficulty = header.difficulty /\ block_env.prevrandao = NoneOf)
        /\ block_env.number = header.number
        /\ block_env.coinbase = header.beneficiary
        /\ block_env.timestamp = header.timestamp
        /\ block_env.gas_limit = header.gas_limit
        /\ block_env.basefee = (IF header.base_fee_per_gas.some
                                THEN header.base_fee_per_gas.v ELSE 0)
        /\ filled.fn = "fill_cfg_and_block_env" =>
              (filled.after_merge <=> cfg \in { "MERGE", "SHANGHAI", "CANCUN" })

C19_Witness ==
    /\ filled.fn = "fill_cfg_and_block_env"
    /\ filled.before = "CANCUN"
    /\ cfg = "LONDON"
    /\ ~filled.after_merge
    /\ header.difficulty = 1
    /\ block_env.difficulty = 1
    /\ block_env.prevrandao = NoneOf
    /\ header.base_fee_per_gas = NoneOf
    /\ block_env.basefee = 0

=============================================================================
